---- MODULE Spec2Model ----
(***************************************************************************)
(* Model of mapfanrs (src/src/main.rs): the request-parameter builder      *)
(* CalcRouteRequestParam, the route command handle_route, and the          *)
(* RouteResult response schema as serde derives its (de)serialisation.     *)
(*                                                                         *)
(* Conventions.  An Option<T> is a sequence: <<>> is None, <<v>> is        *)
(* Some(v).  A String the program builds is a TLA+ string; a String the    *)
(* program scans (a command-line argument) is the sequence of its          *)
(* characters.  An enum value is the name of its variant.                  *)
(***************************************************************************)
EXTENDS Integers, Sequences, FiniteSets, TLC

VARIABLES
    params,     \* the CalcRouteRequestParam under construction
    bpc,        \* builder position: "none", "built", "serialized"
    calls,      \* the setters called on params so far, in call order
    pairs,      \* the Vec<(String, String)> returned by to_params
    args,       \* RouteArgs of the run
    env_key,    \* the environment's RAPID_API_KEY, an Option
    rpc,        \* position of handle_route
    origin,     \* handle_route's origin: Option<Vec<f32>>
    dest,       \* handle_route's dest: Option<Vec<f32>>
    url,        \* the request Url once built: its query pairs
    requests,   \* the HTTP GETs sent, in order
    res,        \* the Response received, an Option
    output,     \* the body text read from the response, an Option
    obj,        \* the parsed RouteResult, an Option
    json_str,   \* the re-serialised RouteResult, an Option
    stdout,     \* the lines printed
    fs,         \* the file written: Option of path and content
    exit,       \* how the run ended: "running", "ok", "err", "panic"
    given       \* how the response body was put together

bvars == <<params, bpc, calls, pairs>>

rvars == <<args, env_key, rpc, origin, dest, url, requests, res, output, obj,
           json_str, stdout, fs, exit, given>>

vars == <<params, bpc, calls, pairs, args, env_key, rpc, origin, dest, url,
          requests, res, output, obj, json_str, stdout, fs, exit, given>>

(***************************************************************************)
(* Bounds of the model.                                                    *)
(***************************************************************************)
\* most fields a struct literal names besides ..Default::default()
MaxLiteral == 1
\* most setter calls made on one builder
MaxSetterCalls == 2
\* length of the arrays of a generated response body
MaxVec == 1
\* a generated struct has at most this many keys present, or at most this
\* many keys absent
MaxDelta == 2

(***************************************************************************)
(* Option<T>                                                               *)
(***************************************************************************)
None == <<>>

Some(v) == <<v>>

IsSome(o) == o # <<>>

(***************************************************************************)
(* Decimal rendering of an unsigned integer, as serde_json and             *)
(* core::fmt write it.                                                     *)
(***************************************************************************)
Digit == <<"0", "1", "2", "3", "4", "5", "6", "7", "8", "9">>

RECURSIVE DecStr(_)
DecStr(n) ==
    IF n < 10 THEN Digit[n + 1]
    ELSE DecStr(n \div 10) \o Digit[(n % 10) + 1]

RECURSIVE Pow10(_)
Pow10(k) == IF k = 0 THEN 1 ELSE 10 * Pow10(k - 1)

(***************************************************************************)
(* f32 values.  A finite value is neg, m, e standing for (-1)^neg * m *    *)
(* 10^e with m not a multiple of 10 (m = 0 has e = 0).  The model is exact *)
(* for decimals of at most six significant digits, for which the f32       *)
(* nearest to the decimal prints back as that decimal (FLT_DIG = 6).       *)
(***************************************************************************)
F32Fin(neg, m, e) == [k |-> "fin", neg |-> neg, m |-> m, e |-> e]

F32Inf(neg) == [k |-> "inf", neg |-> neg, m |-> 0, e |-> 0]

F32NaN == [k |-> "nan", neg |-> FALSE, m |-> 0, e |-> 0]

RECURSIVE Zeros(_)
Zeros(k) == IF k = 0 THEN "" ELSE "0" \o Zeros(k - 1)

\* the w low decimal digits of n, zero padded
RECURSIVE FracStr(_, _)
FracStr(n, w) ==
    IF w = 0 THEN "" ELSE FracStr(n \div 10, w - 1) \o Digit[(n % 10) + 1]

\* format!("{}", x) for x: f32
DisplayF32(x) ==
    IF x.k = "nan" THEN "NaN"
    ELSE (IF x.neg THEN "-" ELSE "") \o
         (IF x.k = "inf" THEN "inf"
          ELSE IF x.e >= 0 THEN DecStr(x.m) \o (IF x.m = 0 THEN "" ELSE Zeros(x.e))
          ELSE DecStr(x.m \div Pow10(-x.e)) \o "." \o FracStr(x.m % Pow10(-x.e), -x.e))

(***************************************************************************)
(* The enums of the request, with their #[repr] discriminants.             *)
(***************************************************************************)
OutputFormat == {"Json", "Xml"}

Priority ==
    [Normal |-> 0, DistanceFirst |-> 1, StraightFirst |-> 2, SimpleWalker |-> 3,
     RoadWidthFirst |-> 4, NormalWalker |-> 100, WalkerDistanceFirst |-> 101,
     WalkerRoofFirst |-> 102, WalkerLessSteps |-> 103]

Tollway == [Normal |-> 0, Priority |-> 1, Avoid |-> 2, Never |-> 3]

Ferry == [Normal |-> 0, Priority |-> 1, Avoid |-> 2, Never |-> 3]

CarType == [Small |-> 0, Normal |-> 1, Middle |-> 2, Big |-> 3, SuperBig |-> 4]

VehicleType == [None |-> 0, Big |-> 1, BigCargo |-> 2, BigSpecial |-> 11]

OnOff == [Off |-> 0, On |-> 1]

\* as derive(Serialize) without serde_repr writes a unit variant: its name
ReprToString_Name(enum, v) == "\"" \o v \o "\""

\* serde_json::to_string(&v) for v of a Serialize_repr enum: the
\* discriminant written as a JSON number
ReprToString(enum, v) == DecStr(enum[v])

(***************************************************************************)
(* CalcRouteRequestParam                                                   *)
(***************************************************************************)
\* the fields in declaration order
FieldOrder ==
    <<"start", "destination", "startangle", "via", "date", "priority",
      "tollway", "ferry", "smartic", "etc", "tolltarget", "cartype",
      "normalspeed", "highwayspeed", "tollwayspeed", "ferryspeed",
      "vehicletype", "height", "loadage", "weight", "width", "danger",
      "daytime", "generalroad", "tollroad", "regulations", "travel",
      "resulttype", "routeresultid", "fmt">>

FieldNames == {FieldOrder[i] : i \in 1..Len(FieldOrder)}

RequiredFields == {"start", "destination"}

OptionalFields == FieldNames \ RequiredFields

\* the optional modifiers: every Option field but the result id
ModifierFields == OptionalFields \ {"routeresultid"}

\* #[derive(Default)]: empty strings and None
DefaultParam ==
    [f \in FieldNames |-> IF f \in RequiredFields THEN "" ELSE None]

\* values a field is given in the model (the payload of Some for an Option)
FieldValues(f) ==
    CASE f = "start" -> {"139.767,35.681"}
      [] f = "destination" -> {"139.69,35.64"}
      [] f = "startangle" -> {90}
      [] f = "via" -> {"139.7,35.6,1,1"}
      [] f = "date" -> {"20221204_100000"}
      [] f = "priority" -> {"DistanceFirst"}
      [] f = "tollway" -> {"Avoid"}
      [] f = "ferry" -> {"Never"}
      [] f \in {"smartic", "etc", "regulations", "travel"} -> {"On"}
      [] f \in {"tollroad", "resulttype"} -> DOMAIN OnOff
      [] f = "cartype" -> DOMAIN CarType
      [] f = "vehicletype" -> DOMAIN VehicleType
      [] f \in {"tolltarget", "danger", "daytime", "generalroad"} -> {1}
      [] f \in {"normalspeed", "highwayspeed", "tollwayspeed", "ferryspeed"} ->
            {F32Fin(FALSE, 6, 1)}
      [] f \in {"height", "loadage", "weight", "width"} -> {250}
      [] f = "routeresultid" -> {"rid-1", ""}
      [] f = "fmt" -> {"Json"}

Position == [longitude : {F32Fin(FALSE, 139767, -3), F32Fin(TRUE, 5, -1)},
             latitude : {F32Fin(FALSE, 35681, -3), F32Fin(FALSE, 1, 2)}]

\* new with latitude written before longitude
new_LatLon(start, destination) ==
    [DefaultParam EXCEPT
        !["start"] = DisplayF32(start.latitude) \o "," \o DisplayF32(start.longitude),
        !["destination"] =
            DisplayF32(destination.latitude) \o "," \o DisplayF32(destination.longitude)]

\* CalcRouteRequestParam::new
new(start, destination) ==
    [DefaultParam EXCEPT
        !["start"] = DisplayF32(start.longitude) \o "," \o DisplayF32(start.latitude),
        !["destination"] =
            DisplayF32(destination.longitude) \o "," \o DisplayF32(destination.latitude)]

\* CalcRouteRequestParam::new_with_result_id
new_with_result_id(result_id) ==
    [DefaultParam EXCEPT !["routeresultid"] = Some(result_id)]

\* the setters
via(self, v) == [self EXCEPT !["via"] = Some(v)]

car_type(self, cartype) == [self EXCEPT !["cartype"] = Some(cartype)]

vehicle_type(self, vehicletype) == [self EXCEPT !["vehicletype"] = Some(vehicletype)]

result_type(self, resulttype) == [self EXCEPT !["resulttype"] = Some(resulttype)]

date(self, d) == [self EXCEPT !["date"] = Some(d)]

\* the blocks in declaration order: date before cartype, vehicletype and
\* tollroad before resulttype
OptionalPairs_Declared(self) ==
    (IF IsSome(self["via"]) THEN <<<<"via", self["via"][1]>>>> ELSE <<>>)
    \o (IF IsSome(self["date"]) THEN <<<<"date", self["date"][1]>>>> ELSE <<>>)
    \o (IF IsSome(self["cartype"])
        THEN <<<<"cartype", ReprToString(CarType, self["cartype"][1])>>>>
        ELSE <<>>)
    \o (IF IsSome(self["vehicletype"])
        THEN <<<<"vehicletype", ReprToString(VehicleType, self["vehicletype"][1])>>>>
        ELSE <<>>)
    \o (IF IsSome(self["tollroad"])
        THEN <<<<"tollroad", ReprToString(OnOff, self["tollroad"][1])>>>>
        ELSE <<>>)
    \o (IF IsSome(self["resulttype"])
        THEN <<<<"resulttype", ReprToString(OnOff, self["resulttype"][1])>>>>
        ELSE <<>>)

\* the date block written with unwrap_or_default() instead of `if let`
OptionalPairs_Placeholder(self) ==
    (IF IsSome(self["via"]) THEN <<<<"via", self["via"][1]>>>> ELSE <<>>)
    \o (IF IsSome(self["cartype"])
        THEN <<<<"cartype", ReprToString(CarType, self["cartype"][1])>>>>
        ELSE <<>>)
    \o <<<<"date", IF IsSome(self["date"]) THEN self["date"][1] ELSE "">>>>
    \o (IF IsSome(self["resulttype"])
        THEN <<<<"resulttype", ReprToString(OnOff, self["resulttype"][1])>>>>
        ELSE <<>>)
    \o (IF IsSome(self["vehicletype"])
        THEN <<<<"vehicletype", ReprToString(VehicleType, self["vehicletype"][1])>>>>
        ELSE <<>>)
    \o (IF IsSome(self["tollroad"])
        THEN <<<<"tollroad", ReprToString(OnOff, self["tollroad"][1])>>>>
        ELSE <<>>)

\* the resulttype block pasted from the cartype block with its key unchanged
OptionalPairs_CopiedKey(self) ==
    (IF IsSome(self["via"]) THEN <<<<"via", self["via"][1]>>>> ELSE <<>>)
    \o (IF IsSome(self["cartype"])
        THEN <<<<"cartype", ReprToString(CarType, self["cartype"][1])>>>>
        ELSE <<>>)
    \o (IF IsSome(self["date"]) THEN <<<<"date", self["date"][1]>>>> ELSE <<>>)
    \o (IF IsSome(self["resulttype"])
        THEN <<<<"cartype", ReprToString(OnOff, self["resulttype"][1])>>>>
        ELSE <<>>)
    \o (IF IsSome(self["vehicletype"])
        THEN <<<<"vehicletype", ReprToString(VehicleType, self["vehicletype"][1])>>>>
        ELSE <<>>)
    \o (IF IsSome(self["tollroad"])
        THEN <<<<"tollroad", ReprToString(OnOff, self["tollroad"][1])>>>>
        ELSE <<>>)

\* to_params, lines 127-162: the `if let Some(x) = self.f { p.push(..) }`
\* blocks of the else branch, in the order they are written
OptionalPairs(self) ==
    (IF IsSome(self["via"]) THEN <<<<"via", self["via"][1]>>>> ELSE <<>>)
    \o (IF IsSome(self["cartype"])
        THEN <<<<"cartype", ReprToString(CarType, self["cartype"][1])>>>>
        ELSE <<>>)
    \o (IF IsSome(self["date"]) THEN <<<<"date", self["date"][1]>>>> ELSE <<>>)
    \o (IF IsSome(self["resulttype"])
        THEN <<<<"resulttype", ReprToString(OnOff, self["resulttype"][1])>>>>
        ELSE <<>>)
    \o (IF IsSome(self["vehicletype"])
        THEN <<<<"vehicletype", ReprToString(VehicleType, self["vehicletype"][1])>>>>
        ELSE <<>>)
    \o (IF IsSome(self["tollroad"])
        THEN <<<<"tollroad", ReprToString(OnOff, self["tollroad"][1])>>>>
        ELSE <<>>)

\* to_params without the else: the result id pair, then the rest
to_params_NoElse(self) ==
    (IF IsSome(self["routeresultid"])
     THEN <<<<"routeresultid", self["routeresultid"][1]>>>>
     ELSE <<>>)
    \o <<<<"start", self["start"]>>, <<"destination", self["destination"]>>>>
    \o OptionalPairs(self)

\* CalcRouteRequestParam::to_params
to_params(self) ==
    IF IsSome(self["routeresultid"])
    THEN <<<<"routeresultid", self["routeresultid"][1]>>>>
    ELSE <<<<"start", self["start"]>>, <<"destination", self["destination"]>>>>
         \o OptionalPairs(self)

(***************************************************************************)
(* The builder as a state machine: one construction, then setter calls,    *)
(* then to_params, which consumes the record.                              *)
(***************************************************************************)
\* the records a struct literal naming at most k fields evaluates to
RECURSIVE Literals(_)
Literals(k) ==
    IF k = 0 THEN {DefaultParam}
    ELSE LET prev == Literals(k - 1)
         IN  prev \cup
             UNION {{[r EXCEPT ![f] = IF f \in RequiredFields THEN v ELSE Some(v)] :
                        v \in FieldValues(f)} : r \in prev, f \in FieldNames}

\* no builder in use
NoBuilder ==
    /\ params = DefaultParam
    /\ bpc = "none"
    /\ calls = <<>>
    /\ pairs = <<>>

\* no run of the route command
NoRun ==
    /\ args = <<>>
    /\ env_key = None
    /\ rpc = "idle"
    /\ origin = None
    /\ dest = None
    /\ url = None
    /\ requests = <<>>
    /\ res = None
    /\ output = None
    /\ obj = None
    /\ json_str = None
    /\ stdout = <<>>
    /\ fs = None
    /\ exit = "running"
    /\ given = <<>>

InitParams == NoBuilder /\ NoRun

New ==
    /\ bpc = "none"
    /\ \E s \in Position, d \in Position : params' = new(s, d)
    /\ bpc' = "built"
    /\ UNCHANGED <<calls, pairs>>
    /\ UNCHANGED rvars

NewWithResultId ==
    /\ bpc = "none"
    /\ \E id \in FieldValues("routeresultid") : params' = new_with_result_id(id)
    /\ bpc' = "built"
    /\ UNCHANGED <<calls, pairs>>
    /\ UNCHANGED rvars

\* CalcRouteRequestParam { f: v, ..., ..Default::default() }, the
\* construction the unit tests use
Literal ==
    /\ bpc = "none"
    /\ params' \in Literals(MaxLiteral)
    /\ bpc' = "built"
    /\ UNCHANGED <<calls, pairs>>
    /\ UNCHANGED rvars

\* a setter may be called on a constructed record that to_params has not
\* consumed
CanCall == bpc = "built" /\ Len(calls) < MaxSetterCalls

Called(f) == calls' = Append(calls, f) /\ UNCHANGED <<bpc, pairs>> /\ UNCHANGED rvars

Via ==
    /\ CanCall
    /\ \E v \in FieldValues("via") : params' = via(params, v)
    /\ Called("via")

CarTypeCall ==
    /\ CanCall
    /\ \E v \in FieldValues("cartype") : params' = car_type(params, v)
    /\ Called("cartype")

VehicleTypeCall ==
    /\ CanCall
    /\ \E v \in FieldValues("vehicletype") : params' = vehicle_type(params, v)
    /\ Called("vehicletype")

ResultTypeCall ==
    /\ CanCall
    /\ \E v \in FieldValues("resulttype") : params' = result_type(params, v)
    /\ Called("resulttype")

Date ==
    /\ CanCall
    /\ \E v \in FieldValues("date") : params' = date(params, v)
    /\ Called("date")

ToParams ==
    /\ bpc = "built"
    /\ pairs' = to_params(params)
    /\ bpc' = "serialized"
    /\ UNCHANGED <<params, calls>>
    /\ UNCHANGED rvars

NextParams ==
    \/ New
    \/ NewWithResultId
    \/ Literal
    \/ Via
    \/ CarTypeCall
    \/ VehicleTypeCall
    \/ ResultTypeCall
    \/ Date
    \/ ToParams

SpecParams == InitParams /\ [][NextParams]_vars

(***************************************************************************)
(* JSON text.  A document is the tree serde_json reads or writes: null, a  *)
(* string, a number (its integer part and the text of its fraction: "",    *)
(* ".0" or ".5"), an array, or an object (a function from its keys).       *)
(* NotJson is a body that is no JSON at all.                               *)
(***************************************************************************)
JNull == [t |-> "null"]

JStr(s) == [t |-> "str", s |-> s]

JNum(n, frac) == [t |-> "num", n |-> n, frac |-> frac]

JArr(a) == [t |-> "arr", a |-> a]

JObj(o) == [t |-> "obj", o |-> o]

NotJson == [t |-> "garbage"]

\* Result<T, serde_json::Error>
Ok(v) == [ok |-> TRUE, v |-> v]

Err(msg) == [ok |-> FALSE, msg |-> msg]

(***************************************************************************)
(* The enums of the response, with their #[repr(u8)] discriminants.        *)
(***************************************************************************)
GuideDirection ==
    [Unknown |-> 0, Along |-> 1, Straight |-> 2, Right30 |-> 3, Right45 |-> 4,
     Right |-> 5, Right135 |-> 6, Right150 |-> 7, Uturn |-> 8, Left150 |-> 9,
     Left135 |-> 10, Left |-> 11, Left45 |-> 12, Left30 |-> 13]

ShapeType == [Road |-> 4, Start |-> 5, End |-> 6]

EtcCode == [Unsupported |-> 0, Gate |-> 1, Antena |-> 2]

TollGateCode ==
    [Issue |-> 1, Settle |-> 2, SimpleGate |-> 3, SimpleGateAndIssue |-> 4,
     SimpleGateAndSettle |-> 5, UturnCheck |-> 6, InvalidIssue |-> 7,
     SettleAndIssue |-> 8]

FacilityType == [Sa |-> 1, Pa |-> 2, Junction |-> 3, Rump |-> 4, Ic |-> 5, SmartIc |-> 7]

GuideDetailCode ==
    [HighwayEntrance |-> 32, HighwayExit |-> 33, HighwayService |-> 34,
     FerryTerminal |-> 48]

GuideType == [Point |-> 0, Start |-> 1, Goal |-> 2, Waypoint |-> 3]

ReprEnums ==
    [GuideDirection |-> GuideDirection, ShapeType |-> ShapeType, EtcCode |-> EtcCode,
     TollGateCode |-> TollGateCode, FacilityType |-> FacilityType,
     GuideDetailCode |-> GuideDetailCode, GuideType |-> GuideType]

(***************************************************************************)
(* The response schema: per struct, its fields in declaration order.  A    *)
(* field is Option<ty>; key is its serde name, skip its                    *)
(* skip_serializing_if = "Option::is_none".                                *)
(***************************************************************************)
TStr == [k |-> "str"]

TFloat == [k |-> "float"]

TUint(bits) == [k |-> "uint", bits |-> bits]

TI64 == [k |-> "i64"]

TRepr(enum) == [k |-> "repr", enum |-> enum]

TStruct(name) == [k |-> "struct", name |-> name]

TVec(of) == [k |-> "vec", of |-> of]

Fld(field, key, ty) == [field |-> field, key |-> key, ty |-> ty, skip |-> FALSE]

FldSkip(field, key, ty) == [field |-> field, key |-> key, ty |-> ty, skip |-> TRUE]

\* RouteResult with skip_serializing_if on every field
RouteResult_SkipNone ==
    <<FldSkip("route_id", "routeId", TStr),
      FldSkip("status", "status", TStr),
      FldSkip("route_result_id", "routeResultId", TStr),
      FldSkip("summary", "summary", TStruct("RouteSummary")),
      FldSkip("guide", "guide", TVec(TStruct("Guide")))>>

RouteResult ==
    <<Fld("route_id", "routeId", TStr),
      Fld("status", "status", TStr),
      Fld("route_result_id", "routeResultId", TStr),
      Fld("summary", "summary", TStruct("RouteSummary")),
      Fld("guide", "guide", TVec(TStruct("Guide")))>>

Guide ==
    <<Fld("type_", "type", TRepr("GuideType")),
      Fld("guide_points", "guidePoints", TVec(TStruct("Point"))),
      Fld("guide_info", "guideInfo", TStruct("GuideInfo"))>>

GuideInfo ==
    <<Fld("guide_direction", "guideDirection", TRepr("GuideDirection")),
      Fld("road_type", "roadType", TUint(16)),
      Fld("distance", "distance", TFloat),
      Fld("travel_time", "travelTime", TFloat),
      FldSkip("guide_detail", "guideDetail", TStruct("GuideDetail")),
      FldSkip("guide_highway", "guideHighway", TStruct("GuideHighway")),
      FldSkip("guide_crossing", "guideCrossing", TStruct("GuideCrossing")),
      FldSkip("guide_road", "guideRoad", TStruct("GuideRoad")),
      FldSkip("guide_toll", "guideToll", TStruct("GuideToll")),
      FldSkip("guide_toll_etc", "guideTollEtc", TStruct("GuideTollEtc")),
      FldSkip("shape_index_first", "shapeIndexFirst", TStruct("ShapeIndex")),
      FldSkip("shape_index_last", "shapeIndexLast", TStruct("ShapeIndex")),
      FldSkip("shape", "shape", TVec(TRepr("ShapeType"))),
      FldSkip("shape_info", "shapeInfo", TStruct("ShapeInfo")),
      FldSkip("shape_points", "shapePoints", TVec(TStruct("ShapePoint"))),
      FldSkip("order", "order", TVec(TUint(32)))>>

ShapePoint ==
    <<Fld("lon", "lon", TFloat), Fld("lat", "lat", TFloat), Fld("el", "el", TUint(32))>>

ShapeInfo ==
    <<Fld("road_type", "roadType", TUint(8)),
      Fld("data_id", "dataId", TUint(8)),
      Fld("info", "info", TUint(32)),
      Fld("distance", "distance", TFloat)>>

ShapeIndex ==
    <<Fld("shape_index", "shapeIndex", TUint(16)),
      Fld("shape_points_index", "shapePointsIndex", TUint(16))>>

GuideTollEtc ==
    <<Fld("toll_gate_code", "tollGateCode", TRepr("TollGateCode")),
      Fld("toll", "toll", TI64),
      Fld("name", "name", TStr),
      Fld("etc_code", "etcCode", TRepr("EtcCode"))>>

GuideToll ==
    <<Fld("toll_gate_code", "tollGateCode", TRepr("TollGateCode")),
      Fld("toll", "toll", TI64),
      Fld("name", "name", TStr)>>

GuideRoad == <<Fld("number", "number", TUint(16)), Fld("name", "name", TStr)>>

GuideCrossing == <<Fld("name", "name", TStr)>>

GuideHighway == <<Fld("facilities", "facilities", TVec(TStruct("Facility")))>>

Facility ==
    <<Fld("type_", "type", TRepr("FacilityType")),
      Fld("name", "name", TStr),
      Fld("info", "info", TUint(32))>>

GuideDetail == <<Fld("code", "code", TRepr("GuideDetailCode")), Fld("name", "name", TStr)>>

Point == <<Fld("lon", "lon", TFloat), Fld("lat", "lat", TFloat)>>

RouteSummary ==
    <<Fld("total_distance", "totalDistance", TFloat),
      Fld("total_travel_time", "totalTravelTime", TFloat),
      Fld("total_toll", "totalToll", TStruct("Toll")),
      Fld("total_toll_etc", "totalTollEtc", TStruct("Toll")),
      Fld("departure_time", "departureTime", TStruct("DateTime")),
      Fld("section_time", "sectionTime", TVec(TFloat))>>

Toll == <<Fld("toll", "toll", TFloat)>>

DateTime == <<Fld("date", "date", TStr), Fld("time", "time", TStr)>>

Schema ==
    [RouteResult |-> RouteResult, Guide |-> Guide, GuideInfo |-> GuideInfo,
     ShapePoint |-> ShapePoint, ShapeInfo |-> ShapeInfo, ShapeIndex |-> ShapeIndex,
     GuideTollEtc |-> GuideTollEtc, GuideToll |-> GuideToll, GuideRoad |-> GuideRoad,
     GuideCrossing |-> GuideCrossing, GuideHighway |-> GuideHighway,
     Facility |-> Facility, GuideDetail |-> GuideDetail, Point |-> Point,
     RouteSummary |-> RouteSummary, Toll |-> Toll, DateTime |-> DateTime]

StructNames == DOMAIN Schema

FieldsOf(name) == {Schema[name][i].field : i \in DOMAIN Schema[name]}

KeysOf(name) == {Schema[name][i].key : i \in DOMAIN Schema[name]}

ByField(name, field) ==
    Schema[name][CHOOSE i \in DOMAIN Schema[name] : Schema[name][i].field = field]

ByKey(name, key) ==
    Schema[name][CHOOSE i \in DOMAIN Schema[name] : Schema[name][i].key = key]

\* largest value of an unsigned integer type (u32 capped at 2^31 - 1, the
\* largest integer TLC represents; no number of the model comes near it)
UintMax(bits) ==
    IF bits = 8 THEN 255 ELSE IF bits = 16 THEN 65535 ELSE 2147483647

(***************************************************************************)
(* serde_json::from_str::<RouteResult> as derive(Deserialize) and          *)
(* Deserialize_repr generate it.                                           *)
(***************************************************************************)
RECURSIVE DeValue(_, _), DeStruct(_, _)

\* a field without serde's Option default: a missing key is an error
DeOption_Required(ty, present, j) ==
    IF ~present THEN Err("missing field")
    ELSE IF j.t = "null" THEN Ok(None)
    ELSE LET r == DeValue(ty, j) IN IF r.ok THEN Ok(Some(r.v)) ELSE r

\* a field of type Option<ty>: a missing key and null are None
DeOption(ty, present, j) ==
    IF ~present \/ j.t = "null" THEN Ok(None)
    ELSE LET r == DeValue(ty, j) IN IF r.ok THEN Ok(Some(r.v)) ELSE r

DeValue(ty, j) ==
    CASE ty.k = "str" ->
            IF j.t = "str" THEN Ok(j.s) ELSE Err("invalid type, expected a string")
      [] ty.k = "float" ->
            IF j.t = "num" THEN Ok([n |-> j.n, half |-> j.frac = ".5"])
            ELSE Err("invalid type, expected a float")
      [] ty.k = "uint" ->
            IF j.t = "num" /\ j.frac = "" /\ j.n >= 0 /\ j.n <= UintMax(ty.bits)
            THEN Ok(j.n) ELSE Err("invalid type or value, expected an unsigned integer")
      [] ty.k = "i64" ->
            IF j.t = "num" /\ j.frac = "" THEN Ok(j.n)
            ELSE Err("invalid type, expected i64")
      [] ty.k = "repr" ->
            IF /\ j.t = "num" /\ j.frac = "" /\ j.n >= 0 /\ j.n <= UintMax(8)
               /\ \E v \in DOMAIN ReprEnums[ty.enum] : ReprEnums[ty.enum][v] = j.n
            THEN Ok(CHOOSE v \in DOMAIN ReprEnums[ty.enum] : ReprEnums[ty.enum][v] = j.n)
            ELSE Err("invalid value, expected a discriminant")
      [] ty.k = "struct" -> DeStruct(ty.name, j)
      [] ty.k = "vec" ->
            IF j.t # "arr" THEN Err("invalid type, expected a sequence")
            ELSE LET rs == [i \in DOMAIN j.a |-> DeValue(ty.of, j.a[i])]
                 IN  IF \E i \in DOMAIN rs : ~rs[i].ok
                     THEN rs[CHOOSE i \in DOMAIN rs : ~rs[i].ok]
                     ELSE Ok([i \in DOMAIN rs |-> rs[i].v])

\* the derived visitor: visit_map on an object (unknown keys are ignored),
\* visit_seq on an array of exactly the fields in order
DeStruct(name, j) ==
    LET S == Schema[name]
        rs == IF j.t = "obj"
              THEN [i \in DOMAIN S |->
                       DeOption(S[i].ty, S[i].key \in DOMAIN j.o,
                                IF S[i].key \in DOMAIN j.o THEN j.o[S[i].key] ELSE JNull)]
              ELSE [i \in DOMAIN S |-> DeOption(S[i].ty, TRUE, j.a[i])]
    IN  IF j.t \notin {"obj", "arr"} THEN Err("invalid type, expected a struct")
        ELSE IF j.t = "arr" /\ Len(j.a) # Len(S) THEN Err("invalid length")
        ELSE IF \E i \in DOMAIN rs : ~rs[i].ok
        THEN rs[CHOOSE i \in DOMAIN rs : ~rs[i].ok]
        ELSE Ok([f \in FieldsOf(name) |->
                    rs[CHOOSE i \in DOMAIN S : S[i].field = f].v])

\* serde_json::from_str(&output) at RouteResult
from_str(text) ==
    IF text.t = "garbage" THEN Err("expected value") ELSE DeStruct("RouteResult", text)

(***************************************************************************)
(* serde_json::to_string as derive(Serialize) and Serialize_repr generate  *)
(* it.                                                                     *)
(***************************************************************************)
RECURSIVE SerValue(_, _), SerStruct(_, _)

SerOption(ty, o) == IF o = None THEN JNull ELSE SerValue(ty, o[1])

SerValue(ty, v) ==
    CASE ty.k = "str" -> JStr(v)
      [] ty.k = "float" -> JNum(v.n, IF v.half THEN ".5" ELSE ".0")
      [] ty.k \in {"uint", "i64"} -> JNum(v, "")
      [] ty.k = "repr" -> JNum(ReprEnums[ty.enum][v], "")
      [] ty.k = "struct" -> SerStruct(ty.name, v)
      [] ty.k = "vec" -> JArr([i \in DOMAIN v |-> SerValue(ty.of, v[i])])

SerStruct(name, rec) ==
    LET S == Schema[name]
        emitted == {S[i].key : i \in {n \in DOMAIN S : ~(S[n].skip /\ rec[S[n].field] = None)}}
    IN  JObj([key \in emitted |->
                 SerOption(ByKey(name, key).ty, rec[ByKey(name, key).field])])

\* serde_json::to_string(&obj) for obj: RouteResult
to_string(value) == SerStruct("RouteResult", value)

(***************************************************************************)
(* Scanning the --from and --to strings: str::split(",") and               *)
(* str::parse::<f32>.                                                      *)
(***************************************************************************)
\* s.split(","): the parts between the commas; one part when there is none
RECURSIVE Split(_)
Split(s) ==
    IF \E i \in DOMAIN s : s[i] = ","
    THEN LET i == CHOOSE n \in DOMAIN s :
                      s[n] = "," /\ \A m \in 1..(n - 1) : s[m] # ","
         IN  <<SubSeq(s, 1, i - 1)>> \o Split(SubSeq(s, i + 1, Len(s)))
    ELSE <<s>>

IsDigit(c) == \E d \in DOMAIN Digit : Digit[d] = c

DigitVal(c) == (CHOOSE d \in DOMAIN Digit : Digit[d] = c) - 1

LowerOf == [I |-> "i", N |-> "n", F |-> "f", A |-> "a", T |-> "t", Y |-> "y"]

Lower(c) == IF c \in DOMAIN LowerOf THEN LowerOf[c] ELSE c

\* m * 10^e without the trailing zeros of m
RECURSIVE Normalize(_, _, _)
Normalize(neg, m, e) ==
    IF m = 0 THEN F32Fin(neg, 0, 0)
    ELSE IF m % 10 = 0 THEN Normalize(neg, m \div 10, e + 1)
    ELSE F32Fin(neg, m, e)

\* the scan of digits [. digits] [e [sign] digits] from character i on.  st
\* is the part being read, nd the digits of the mantissa m read so far, fd
\* those after the point, x the exponent read so far and xneg its sign.
RECURSIVE ScanNumber(_, _, _, _, _, _, _, _, _)
ScanNumber(cs, i, st, neg, nd, m, fd, xneg, x) ==
    IF i > Len(cs)
    THEN IF st \in {"int", "frac"} /\ nd > 0 THEN Ok(Normalize(neg, m, -fd))
         ELSE IF st = "exp" THEN Ok(Normalize(neg, m, (IF xneg THEN -x ELSE x) - fd))
         ELSE Err("invalid float literal")
    ELSE IF IsDigit(cs[i])
    THEN IF st \in {"int", "frac"}
         THEN ScanNumber(cs, i + 1, st, neg, nd + 1, 10 * m + DigitVal(cs[i]),
                         IF st = "frac" THEN fd + 1 ELSE fd, xneg, x)
         ELSE ScanNumber(cs, i + 1, "exp", neg, nd, m, fd, xneg,
                         10 * x + DigitVal(cs[i]))
    ELSE IF cs[i] = "." /\ st = "int"
    THEN ScanNumber(cs, i + 1, "frac", neg, nd, m, fd, xneg, x)
    ELSE IF cs[i] \in {"e", "E"} /\ st \in {"int", "frac"} /\ nd > 0
    THEN ScanNumber(cs, i + 1, "exp0", neg, nd, m, fd, xneg, x)
    ELSE IF cs[i] \in {"+", "-"} /\ st = "exp0"
    THEN ScanNumber(cs, i + 1, "exp1", neg, nd, m, fd, cs[i] = "-", x)
    ELSE Err("invalid float literal")

\* the text after the sign
Unsigned(cs) == IF cs # <<>> /\ cs[1] \in {"+", "-"} THEN Tail(cs) ELSE cs

\* v.parse::<f32>(): [sign] (inf | infinity | nan | number), in any case
ParseF32(cs) ==
    IF [i \in DOMAIN Unsigned(cs) |-> Lower(Unsigned(cs)[i])]
          \in {<<"i", "n", "f">>, <<"i", "n", "f", "i", "n", "i", "t", "y">>}
    THEN Ok(F32Inf(cs[1] = "-"))
    ELSE IF [i \in DOMAIN Unsigned(cs) |-> Lower(Unsigned(cs)[i])] = <<"n", "a", "n">>
    THEN Ok(F32NaN)
    ELSE ScanNumber(Unsigned(cs), 1, "int", cs # <<>> /\ cs[1] = "-", 0, 0, 0, FALSE, 0)

\* .split(",").map(|v| v.parse::<f32>().expect(..)).collect(): the floats, or
\* the panic of the first part that is no float
Floats(s) ==
    LET rs == [i \in DOMAIN Split(s) |-> ParseF32(Split(s)[i])]
    IN  IF \E i \in DOMAIN rs : ~rs[i].ok THEN Err("input must be a float number")
        ELSE Ok([i \in DOMAIN rs |-> rs[i].v])

(***************************************************************************)
(* Inputs of a run.                                                        *)
(***************************************************************************)
ArgStrings ==
    {<<"1", "3", "9", ".", "7", "6", "7", ",", "3", "5", ".", "6", "8", "1">>,
     <<"1", "3", "9", ".", "6", "9", ",", "3", "5", ".", "6", "4">>,
     <<"n", "o", "t", ",", "a", ",", "n", "u", "m", "b", "e", "r">>,
     <<"1">>,
     <<"1", ",", "2", ",", "3">>,
     <<>>,
     <<"1", ".", "5", "0", ",", "-", "2">>,
     <<"1", ",">>,
     <<"+", ".", "5", ",", "1", "e", "2">>,
     <<"i", "n", "f", ",", "N", "a", "N">>}

RouteArgs ==
    [from : ArgStrings, to : ArgStrings,
     via : {None, Some("139.7,35.6,1,1")},
     date : {None, Some("20221204_100000")},
     file : {None, Some("out.json")}]

StatusCodes == {200, 201, 404, 500}

\* response bodies of the runs of the command
RunBodies ==
    {JObj([routeId |-> JStr("r1"), status |-> JStr("OK")]),
     JObj([status |-> JStr("NG")]),
     JObj([status |-> JNum(0, "")]),
     NotJson}

(***************************************************************************)
(* Generated response bodies: one struct of the schema, with a chosen set  *)
(* of its keys present, inside the smallest RouteResult document that      *)
(* holds it.                                                               *)
(***************************************************************************)
\* where a struct sits in the document
Parent ==
    [RouteSummary |-> <<"RouteResult", "summary">>,
     Toll |-> <<"RouteSummary", "totalToll">>,
     DateTime |-> <<"RouteSummary", "departureTime">>,
     Guide |-> <<"RouteResult", "guide">>,
     Point |-> <<"Guide", "guidePoints">>,
     GuideInfo |-> <<"Guide", "guideInfo">>,
     GuideDetail |-> <<"GuideInfo", "guideDetail">>,
     GuideHighway |-> <<"GuideInfo", "guideHighway">>,
     Facility |-> <<"GuideHighway", "facilities">>,
     GuideCrossing |-> <<"GuideInfo", "guideCrossing">>,
     GuideRoad |-> <<"GuideInfo", "guideRoad">>,
     GuideToll |-> <<"GuideInfo", "guideToll">>,
     GuideTollEtc |-> <<"GuideInfo", "guideTollEtc">>,
     ShapeIndex |-> <<"GuideInfo", "shapeIndexFirst">>,
     ShapeInfo |-> <<"GuideInfo", "shapeInfo">>,
     ShapePoint |-> <<"GuideInfo", "shapePoints">>]

RECURSIVE SampleValue(_, _)
\* a value of the type; nested structs and arrays are full or empty
SampleValue(ty, full) ==
    CASE ty.k = "str" -> JStr("NG")
      [] ty.k = "float" -> JNum(12, ".5")
      [] ty.k = "uint" -> JNum(1, "")
      [] ty.k = "i64" -> JNum(-3, "")
      [] ty.k = "repr" ->
            JNum(ReprEnums[ty.enum][CHOOSE v \in DOMAIN ReprEnums[ty.enum] : TRUE], "")
      [] ty.k = "struct" ->
            IF full
            THEN JObj([key \in KeysOf(ty.name) |->
                          SampleValue(ByKey(ty.name, key).ty, full)])
            ELSE JObj(<<>>)
      [] ty.k = "vec" ->
            JArr([i \in 1..(IF full THEN MaxVec ELSE 0) |-> SampleValue(ty.of, full)])

\* a value of another JSON type than the field's
WrongValue(ty) == IF ty.k = "str" THEN JNum(7, "") ELSE JStr("oops")

RECURSIVE Wrap(_, _)
Wrap(name, j) ==
    IF name = "RouteResult" THEN j
    ELSE LET up == Parent[name]
             inner == IF ByKey(up[1], up[2]).ty.k = "vec" THEN JArr(<<j>>) ELSE j
         IN  Wrap(up[1], JObj([key \in {up[2]} |-> inner]))

\* the first key of the struct, in declaration order, that is present
FirstPresent(name, present) ==
    Schema[name][CHOOSE i \in DOMAIN Schema[name] :
                    /\ Schema[name][i].key \in present
                    /\ \A n \in 1..(i - 1) : Schema[name][n].key \notin present].key

Document(g) ==
    Wrap(g.target,
         JObj([key \in g.present |->
                  IF g.corrupt /\ key = FirstPresent(g.target, g.present)
                  THEN WrongValue(ByKey(g.target, key).ty)
                  ELSE SampleValue(ByKey(g.target, key).ty, g.full)]))

(***************************************************************************)
(* handle_route as a state machine.                                        *)
(***************************************************************************)
InitRoute ==
    /\ NoBuilder
    /\ args \in RouteArgs
    /\ env_key \in {None, Some("key")}
    /\ rpc = "header"
    /\ origin = None
    /\ dest = None
    /\ url = None
    /\ requests = <<>>
    /\ res = None
    /\ output = None
    /\ obj = None
    /\ json_str = None
    /\ stdout = <<>>
    /\ fs = None
    /\ exit = "running"
    /\ given = <<>>

\* the run ends with a panic or with Err
Stop(how) == rpc' = "end" /\ exit' = how

\* line 703: RequestHeader::new() reads RAPID_API_KEY
Header ==
    /\ rpc = "header"
    /\ IF IsSome(env_key) THEN rpc' = "from" /\ UNCHANGED exit ELSE Stop("panic")
    /\ UNCHANGED <<args, env_key, origin, dest, url, requests, res, output, obj,
                   json_str, stdout, fs, given>>
    /\ UNCHANGED bvars

\* lines 704-708
ParseFrom ==
    /\ rpc = "from"
    /\ LET r == Floats(args.from)
       IN  IF r.ok THEN origin' = Some(r.v) /\ rpc' = "to" /\ UNCHANGED exit
           ELSE Stop("panic") /\ UNCHANGED origin
    /\ UNCHANGED <<args, env_key, dest, url, requests, res, output, obj, json_str,
                   stdout, fs, given>>
    /\ UNCHANGED bvars

\* lines 709-713
ParseTo ==
    /\ rpc = "to"
    /\ LET r == Floats(args.to)
       IN  IF r.ok THEN dest' = Some(r.v) /\ rpc' = "ensure" /\ UNCHANGED exit
           ELSE Stop("panic") /\ UNCHANGED dest
    /\ UNCHANGED <<args, env_key, origin, url, requests, res, output, obj, json_str,
                   stdout, fs, given>>
    /\ UNCHANGED bvars

\* the ensure written with >= for ==
LenOk_AtLeast(o, d) == Len(o) >= 2 /\ Len(d) >= 2

\* line 715: origin.len() == 2 && dest.len() == 2
LenOk(o, d) == Len(o) = 2 /\ Len(d) = 2

\* lines 714-719
Ensure ==
    /\ rpc = "ensure"
    /\ IF LenOk(origin[1], dest[1])
       THEN rpc' = "build" /\ UNCHANGED exit
       ELSE Stop("err")
    /\ UNCHANGED <<args, env_key, origin, dest, url, requests, res, output, obj,
                   json_str, stdout, fs, given>>
    /\ UNCHANGED bvars

\* lines 721-736: the parameters handle_route builds
RouteParams(a, o, d) ==
    LET start == [longitude |-> o[1], latitude |-> o[2]]
        destination == [longitude |-> d[1], latitude |-> d[2]]
        p0 == vehicle_type(new(start, destination), "BigCargo")
        p1 == IF IsSome(a.date) THEN date(p0, a.date[1]) ELSE p0
    IN  IF IsSome(a.via) THEN via(p1, a.via[1]) ELSE p1

\* lines 721-738
Build ==
    /\ rpc = "build"
    /\ url' = Some(to_params(RouteParams(args, origin[1], dest[1])))
    /\ rpc' = "send"
    /\ UNCHANGED <<args, env_key, origin, dest, requests, res, output, obj,
                   json_str, stdout, fs, exit, given>>
    /\ UNCHANGED bvars

\* lines 739-744: the GET and its await; the transport fails or a response
\* arrives
Send ==
    /\ rpc = "send"
    /\ requests' = Append(requests, [query |-> url[1], key |-> env_key[1],
                                     host |-> "mapfanapi-route.p.rapidapi.com"])
    /\ \/ Stop("err") /\ UNCHANGED res
       \/ /\ \E st \in StatusCodes, b \in RunBodies :
                res' = Some([status |-> st, body |-> b])
          /\ rpc' = "status"
          /\ UNCHANGED exit
    /\ UNCHANGED <<args, env_key, origin, dest, url, output, obj, json_str,
                   stdout, fs, given>>
    /\ UNCHANGED bvars

\* the run without the ensure on the status
StatusOk_Unchecked(st) == TRUE

\* line 745: res.status() == StatusCode::OK
StatusOk(st) == st = 200

\* line 745
EnsureStatus ==
    /\ rpc = "status"
    /\ IF StatusOk(res[1].status) THEN rpc' = "text" /\ UNCHANGED exit ELSE Stop("err")
    /\ UNCHANGED <<args, env_key, origin, dest, url, requests, res, output, obj,
                   json_str, stdout, fs, given>>
    /\ UNCHANGED bvars

\* line 747: reading the body succeeds or fails
Text ==
    /\ rpc = "text"
    /\ \/ Stop("err") /\ UNCHANGED output
       \/ output' = Some(res[1].body) /\ rpc' = "parse" /\ UNCHANGED exit
    /\ UNCHANGED <<args, env_key, origin, dest, url, requests, res, obj, json_str,
                   stdout, fs, given>>
    /\ UNCHANGED bvars

\* line 748
FromStr ==
    /\ rpc = "parse"
    /\ LET r == from_str(output[1])
       IN  IF r.ok THEN obj' = Some(r.v) /\ rpc' = "serialize" /\ UNCHANGED exit
           ELSE Stop("panic") /\ UNCHANGED obj
    /\ UNCHANGED <<args, env_key, origin, dest, url, requests, res, output,
                   json_str, stdout, fs, given>>
    /\ UNCHANGED bvars

\* line 749
Serialize ==
    /\ rpc = "serialize"
    /\ json_str' = Some(to_string(obj[1]))
    /\ rpc' = "output"
    /\ UNCHANGED <<args, env_key, origin, dest, url, requests, res, output, obj,
                   stdout, fs, exit, given>>
    /\ UNCHANGED bvars

\* lines 751-757: fs::write, which may fail, or println!
Output ==
    /\ rpc = "output"
    /\ IF IsSome(args.file)
       THEN \/ fs' = Some([path |-> args.file[1], content |-> json_str[1]])
               /\ Stop("ok")
            \/ Stop("err") /\ UNCHANGED fs
       ELSE Stop("ok") /\ UNCHANGED fs
    /\ stdout' = IF IsSome(args.file) THEN stdout ELSE Append(stdout, json_str[1])
    /\ UNCHANGED <<args, env_key, origin, dest, url, requests, res, output, obj,
                   json_str, given>>
    /\ UNCHANGED bvars

NextRoute ==
    \/ Header
    \/ ParseFrom
    \/ ParseTo
    \/ Ensure
    \/ Build
    \/ Send
    \/ EnsureStatus
    \/ Text
    \/ FromStr
    \/ Serialize
    \/ Output

SpecRoute == InitRoute /\ [][NextRoute]_vars

(***************************************************************************)
(* The parse and re-serialisation of lines 748-749 on generated bodies:    *)
(* the run stands after line 747 with the body read.                       *)
(***************************************************************************)
\* the key sets within MaxDelta keys of the empty or of the full struct
KeySets(name) ==
    {P \in SUBSET KeysOf(name) :
        Cardinality(P) <= MaxDelta \/ Cardinality(KeysOf(name) \ P) <= MaxDelta}

Given ==
    UNION {[target : {name}, present : KeySets(name), full : BOOLEAN,
            corrupt : BOOLEAN] : name \in StructNames}

ExampleArgs ==
    [from |-> <<"1", "3", "9", ".", "7", "6", "7", ",", "3", "5", ".", "6", "8", "1">>, to |-> <<"1", "3", "9", ".", "6", "9", ",", "3", "5", ".", "6", "4">>, via |-> None, date |-> None, file |-> None]

InitJson ==
    /\ NoBuilder
    /\ given \in {g \in Given : g.corrupt => g.present # {}}
    /\ args = ExampleArgs
    /\ env_key = Some("key")
    /\ rpc = "parse"
    /\ origin = Some(Floats(args.from).v)
    /\ dest = Some(Floats(args.to).v)
    /\ url = Some(to_params(RouteParams(args, origin[1], dest[1])))
    /\ requests = <<[query |-> url[1], key |-> env_key[1],
                     host |-> "mapfanapi-route.p.rapidapi.com"]>>
    /\ res = Some([status |-> 200, body |-> Document(given)])
    /\ output = Some(res[1].body)
    /\ obj = None
    /\ json_str = None
    /\ stdout = <<>>
    /\ fs = None
    /\ exit = "running"

NextJson ==
    \/ FromStr
    \/ Serialize

SpecJson == InitJson /\ [][NextJson]_vars

(***************************************************************************)
(* Properties of to_params.                                                *)
(***************************************************************************)
Keys(ps) == {ps[i][1] : i \in DOMAIN ps}

\* position of a name in a sequence of distinct names, 0 when absent
IndexIn(order, name) ==
    IF \E i \in DOMAIN order : order[i] = name
    THEN CHOOSE i \in DOMAIN order : order[i] = name
    ELSE 0

\* pairs after the first two follow the given order of keys
FollowsOrder(ps, order) ==
    \A i, j \in 3..Len(ps) :
        i < j => /\ IndexIn(order, ps[i][1]) > 0
                 /\ IndexIn(order, ps[i][1]) < IndexIn(order, ps[j][1])

Serialized == bpc = "serialized"

\* C1: when routeresultid is Some(id), to_params returns exactly
\* [("routeresultid", id)], whatever the other fields hold.
C1_ResultIdOnly ==
    (Serialized /\ IsSome(params["routeresultid"]))
        => pairs = <<<<"routeresultid", params["routeresultid"][1]>>>>

\* new_with_result_id, then the setters via and vehicle_type, then to_params
C1_Witness ==
    /\ Serialized
    /\ params["routeresultid"] = Some("rid-1")
    /\ calls = <<"via", "vehicletype">>
    /\ IsSome(params["via"]) /\ IsSome(params["vehicletype"])
    /\ pairs = <<<<"routeresultid", "rid-1">>>>

\* C2 as stated: with no routeresultid the list starts with start and
\* destination and the optional pairs follow in the declaration order of the
\* record's fields.
C2_DeclarationOrder ==
    (Serialized /\ ~IsSome(params["routeresultid"]))
        => /\ Len(pairs) >= 2
           /\ pairs[1][1] = "start"
           /\ pairs[2][1] = "destination"
           /\ FollowsOrder(pairs, FieldOrder)

\* the order in which to_params tests the optional fields
EmitOrder == <<"via", "cartype", "date", "resulttype", "vehicletype", "tollroad">>

\* C2 amended: with no routeresultid the list starts with start and
\* destination and the optional pairs follow in the fixed order via, cartype,
\* date, resulttype, vehicletype, tollroad, whatever the order of the setter
\* calls.
C2_EmitOrder ==
    (Serialized /\ ~IsSome(params["routeresultid"]))
        => /\ Len(pairs) >= 2
           /\ pairs[1] = <<"start", params["start"]>>
           /\ pairs[2] = <<"destination", params["destination"]>>
           /\ FollowsOrder(pairs, EmitOrder)

\* date was set before car_type, and cartype still precedes date
C2_Witness ==
    /\ Serialized
    /\ ~IsSome(params["routeresultid"])
    /\ calls = <<"date", "cartype">>
    /\ Len(pairs) = 4
    /\ pairs[3][1] = "cartype"
    /\ pairs[4][1] = "date"

\* C3: with no routeresultid, every optional modifier field that is set has
\* a pair with its name as key in the output of to_params.
C3_EverySetFieldEmitted ==
    (Serialized /\ ~IsSome(params["routeresultid"]))
        => \A f \in ModifierFields : IsSome(params[f]) => f \in Keys(pairs)

\* C4: to_params emits no pair for an optional field that is None and no
\* empty-string placeholder (an empty value is the field's own value); with
\* only date set the output is exactly [start, destination, date].
C4_UnsetOmitted ==
    Serialized =>
        /\ \A f \in OptionalFields : ~IsSome(params[f]) => f \notin Keys(pairs)
        /\ \A i \in DOMAIN pairs :
              pairs[i][2] = "" =>
                  \/ pairs[i][1] \in RequiredFields /\ params[pairs[i][1]] = ""
                  \/ pairs[i][1] \in OptionalFields /\ params[pairs[i][1]] = Some("")
        /\ params = [DefaultParam EXCEPT !["date"] = Some("20221204_100000")]
              => pairs = <<<<"start", "">>, <<"destination", "">>,
                           <<"date", "20221204_100000">>>>

\* tests::date_should_be_date
C4_Witness ==
    /\ Serialized
    /\ params = [DefaultParam EXCEPT !["date"] = Some("20221204_100000")]
    /\ Len(pairs) = 3
    /\ pairs[3] = <<"date", "20221204_100000">>

\* the decimal text of each variant's discriminant, written out
EnumText ==
    [cartype |-> [Small |-> "0", Normal |-> "1", Middle |-> "2", Big |-> "3",
                  SuperBig |-> "4"],
     vehicletype |-> [None |-> "0", Big |-> "1", BigCargo |-> "2",
                      BigSpecial |-> "11"],
     resulttype |-> [Off |-> "0", On |-> "1"],
     tollroad |-> [Off |-> "0", On |-> "1"]]

\* C5: the value of every enum-valued pair (cartype, resulttype, vehicletype,
\* tollroad) is the decimal string of the variant's discriminant, never the
\* variant's name.
C5_EnumAsNumber ==
    Serialized =>
        \A i \in DOMAIN pairs :
            pairs[i][1] \in DOMAIN EnumText =>
                LET variant == params[pairs[i][1]][1]
                IN  /\ pairs[i][2] = EnumText[pairs[i][1]][variant]
                    /\ pairs[i][2] # variant

\* vehicle_type(BigSpecial) and car_type(SuperBig) serialise to "11" and "4"
C5_Witness ==
    /\ Serialized
    /\ params["vehicletype"] = Some("BigSpecial")
    /\ params["cartype"] = Some("SuperBig")
    /\ <<"cartype", "4">> = pairs[3]
    /\ <<"vehicletype", "11">> = pairs[4]

(***************************************************************************)
(* Properties of the response schema.                                      *)
(***************************************************************************)
\* C6 as stated: the re-serialised RouteResult has exactly the keys of the
\* body that was parsed, none added with the value null.
C6_SameFieldSet ==
    IsSome(json_str) => DOMAIN json_str[1].o = DOMAIN output[1].o

\* C6 amended: the re-serialised RouteResult always has the five keys
\* routeId, status, routeResultId, summary and guide; a key absent from the
\* body is written with the value null, a key present with a value keeps a
\* value.
C6_AbsentAsNull ==
    IsSome(json_str) =>
        /\ DOMAIN json_str[1].o =
              {"routeId", "status", "routeResultId", "summary", "guide"}
        /\ \A key \in DOMAIN json_str[1].o :
              IF key \in DOMAIN output[1].o
              THEN json_str[1].o[key] # JNull
              ELSE json_str[1].o[key] = JNull

\* the minimal body with routeId and status comes back with three nulls
C6_Witness ==
    /\ IsSome(json_str)
    /\ output[1] = JObj([routeId |-> JStr("NG"), status |-> JStr("NG")])
    /\ json_str[1] = JObj([routeId |-> JStr("NG"), status |-> JStr("NG"),
                           routeResultId |-> JNull, summary |-> JNull,
                           guide |-> JNull])

\* the parsed struct the body was generated around
RECURSIVE Locate(_, _)
Locate(name, root) ==
    IF name = "RouteResult" THEN root
    ELSE LET up == Parent[name]
             f == ByKey(up[1], up[2])
             v == Locate(up[1], root)[f.field][1]
         IN  IF f.ty.k = "vec" THEN v[1] ELSE v

\* C7: a body whose present fields have the right types parses, whatever
\* subset of a struct's keys is present, at every level of the schema; an
\* absent key is None (and a present one Some); {"status":"NG"} parses to
\* status = Some("NG") with the four other fields None.
C7_AbsentIsNone ==
    (rpc # "parse" /\ ~given.corrupt) =>
        /\ exit # "panic"
        /\ IsSome(obj)
        /\ \A i \in DOMAIN Schema[given.target] :
              LET f == Schema[given.target][i]
              IN  IsSome(Locate(given.target, obj[1])[f.field])
                      <=> f.key \in given.present
        /\ output[1] = JObj([status |-> JStr("NG")])
              => obj[1] = [route_id |-> None, status |-> Some("NG"),
                           route_result_id |-> None, summary |-> None,
                           guide |-> None]

\* {"status":"NG"} has been parsed
C7_Witness ==
    /\ rpc = "serialize"
    /\ output[1] = JObj([status |-> JStr("NG")])
    /\ obj[1]["status"] = Some("NG")
    /\ obj[1]["summary"] = None
    /\ obj[1]["guide"] = None

(***************************************************************************)
(* Properties of the route command.                                        *)
(***************************************************************************)
\* the string is two comma-separated parts that are both floats
WellFormed(s) ==
    /\ Len(Split(s)) = 2
    /\ \A i \in 1..Len(Split(s)) : ParseF32(Split(s)[i]).ok

\* C8: when --from or --to is not two comma-separated floats the run fails
\* and sends no HTTP request; a request is sent only after both strings were
\* accepted.
C8_NoRequestOnBadInput ==
    /\ (~WellFormed(args.from) \/ ~WellFormed(args.to)) =>
          /\ requests = <<>>
          /\ ~IsSome(res)
          /\ exit # "ok"
          /\ rpc = "end" => exit \in {"err", "panic"}
    /\ requests # <<>> =>
          /\ IsSome(origin) /\ Len(origin[1]) = 2
          /\ IsSome(dest) /\ Len(dest[1]) = 2
    /\ args.from \in {<<"n", "o", "t", ",", "a", ",", "n", "u", "m", "b", "e", "r">>, <<"1">>, <<"1", ",", "2", ",", "3">>} => requests = <<>>

\* a run with a good --from and --to "1,2,3" has ended in an error, nothing
\* sent
C8_Witness ==
    /\ rpc = "end"
    /\ exit = "err"
    /\ args.from = <<"1", "3", "9", ".", "7", "6", "7", ",", "3", "5", ".", "6", "8", "1">>
    /\ args.to = <<"1", ",", "2", ",", "3">>
    /\ IsSome(env_key)
    /\ requests = <<>>

\* C9 as stated: run with only --from and --to, the parameters sent are
\* start and destination and no other key.
C9_OnlyStartDestination ==
    (requests # <<>> /\ args.via = None /\ args.date = None) =>
        Keys(requests[1].query) = {"start", "destination"}

\* C9 amended: run with only --from and --to, the parameters sent are start,
\* destination and vehicletype=2, which handle_route always sets, and no
\* other key; from="139.767,35.681" and to="139.69,35.64" are sent as written.
C9_StartDestinationVehicle ==
    (requests # <<>> /\ args.via = None /\ args.date = None) =>
        /\ Len(requests[1].query) = 3
        /\ requests[1].query[1][1] = "start"
        /\ requests[1].query[2][1] = "destination"
        /\ requests[1].query[3] = <<"vehicletype", "2">>
        /\ (args.from = <<"1", "3", "9", ".", "7", "6", "7", ",", "3", "5", ".", "6", "8", "1">> /\ args.to = <<"1", "3", "9", ".", "6", "9", ",", "3", "5", ".", "6", "4">>) =>
              /\ requests[1].query[1][2] = "139.767,35.681"
              /\ requests[1].query[2][2] = "139.69,35.64"

\* the example run has sent its request
C9_Witness ==
    /\ Len(requests) = 1
    /\ args.from = <<"1", "3", "9", ".", "7", "6", "7", ",", "3", "5", ".", "6", "8", "1">>
    /\ args.to = <<"1", "3", "9", ".", "6", "9", ",", "3", "5", ".", "6", "4">>
    /\ args.via = None
    /\ args.date = None
    /\ requests[1].query = <<<<"start", "139.767,35.681">>,
                             <<"destination", "139.69,35.64">>,
                             <<"vehicletype", "2">>>>

\* a success status code
Success(st) == st \in 200..299

\* C10: at most one GET is sent; after a response with a non-success status
\* the run ends in an error with the body unparsed and nothing printed or
\* written; output exists only after a success status and a body that parsed
\* as a RouteResult.
C10_NoOutputOnFailure ==
    /\ Len(requests) <= 1
    /\ (IsSome(res) /\ ~Success(res[1].status)) =>
          /\ rpc \in {"status", "end"}
          /\ rpc = "end" => exit = "err"
          /\ output = None /\ obj = None /\ json_str = None
          /\ stdout = <<>> /\ fs = None
    /\ (stdout # <<>> \/ fs # None) =>
          /\ IsSome(res) /\ Success(res[1].status)
          /\ IsSome(obj) /\ from_str(res[1].body).ok
          /\ exit = "ok"

\* a run whose GET was answered 404 has ended in an error
C10_Witness ==
    /\ rpc = "end"
    /\ exit = "err"
    /\ Len(requests) = 1
    /\ IsSome(res) /\ res[1].status = 404
    /\ obj = None
    /\ stdout = <<>>
    /\ fs = None

(***************************************************************************)
(* Keys of the parameter list.                                             *)
(***************************************************************************)
\* C11: after a constructor and any sequence of setter calls, repeats
\* included, the list to_params returns has no two pairs with the same key:
\* a repeated setter overwrites its field.
C11_NoDuplicateKeys ==
    Serialized =>
        \A i, j \in DOMAIN pairs : i # j => pairs[i][1] # pairs[j][1]

\* new, then vehicle_type twice with different values: one vehicletype
\* pair, holding the second value
C11_Witness ==
    /\ Serialized
    /\ params["start"] = "139.767,35.681"
    /\ calls = <<"vehicletype", "vehicletype">>
    /\ params["vehicletype"] = Some("BigSpecial")
    /\ pairs = <<<<"start", "139.767,35.681">>,
                 <<"destination", params["destination"]>>,
                 <<"vehicletype", "11">>>>

====
